---- MODULE Spec2Model ----
(***************************************************************************)
(* Model of zstash's chunked archive builder: addfiles / addfile of        *)
(* src/src/utils.py, driven as create() of src/zstash/create.py drives it  *)
(* (itar = -1, a fresh index).                                             *)
(*                                                                         *)
(* A chunk is the byte sequence physically written to the tar file.  A     *)
(* byte is a triple: <<"h", p, k>> is the k-th byte of the header of entry *)
(* p, <<"d", p, j>> the j-th content byte of entry p as read by addfile,   *)
(* <<"n", 0, 0>> a NUL byte of padding.  Entries are named by their        *)
(* position in the list handed to addfiles (the walk yields distinct       *)
(* paths).                                                                 *)
(***************************************************************************)
EXTENDS Integers, Sequences, FiniteSets, TLC

\* ------------------------------------------------------------------ bounds
\* Longest entry list handed to addfiles.
MaxFiles == 3
\* tarfile.BLOCKSIZE (512 in the library), scaled down.
BLOCKSIZE == 2
\* settings.BLOCK_SIZE, the read block of addfile, scaled down.
BLOCK_SIZE == 3
\* Blocks of one entry header (1 in GNU format with short names; the pax
\* format adds blocks).
HeaderBlocks == 1
\* Longest entry list in the runs of create() and in the runs checked for
\* termination.
MaxTree == 2

\* tarfile.RECORDSIZE is BLOCKSIZE * 20.
RECORDSIZE == BLOCKSIZE * 20
\* Values config.maxsize takes (bytes).
MaxSizes == {5, 10}
\* Values of config.keep (create.py line 47: off unless --keep is given).
Keeps == {FALSE}
\* Sizes os.path.getsize reports for an entry.
SizeSet == {1, 6}

VARIABLES
    pc,        \* position in addfiles
    config,    \* [maxsize, keep]
    files,     \* line 42: sequence of <<path, size>>
    exc,       \* exception that left addfiles ("none" while it runs)
    failures,  \* line 45
    newtar,    \* line 46
    i,         \* loop index of line 48 (0-based)
    archived,  \* line 53
    tarsize,   \* line 54
    itar,      \* line 55
    tar,       \* the open TarFile: [offset, closed]; its bytes are chunks[itar+1].bytes
    chunks,    \* tar files created, by ordinal+1: [name, bytes, open, sent, local]
    pending,   \* rows inserted in the open transaction of con
    index,     \* committed rows of table files
    seen,      \* per entry processed so far: its chunk, and whether addfile returned
    puts,      \* the hpss_put calls that returned: [file, keep]
    cpc,       \* position in create()
    hpss,      \* config.hpss: "none" or a remote path
    db,        \* the index file in the cache: "absent", "old" or "new"
    conn,      \* the sqlite connection con: "none", "open" or "closed"
    checked,   \* the setup checks of create() that have passed
    cexc,      \* exception that left create() ("none" while it runs)
    arg,       \* argument of the function under evaluation
    res        \* its result

\* State of create() around the call of line 191.
cvars == <<cpc, hpss, db, conn, checked, cexc>>

\* State of a function evaluation.
fvars == <<arg, res>>

vars == <<pc, config, files, exc, failures, newtar, i, archived, tarsize,
          itar, tar, chunks, pending, index, seen, puts, cvars, fvars>>

\* ------------------------------------------------------------ pure helpers
Min(a, b) == IF a < b THEN a ELSE b

NUL == <<"n", 0, 0>>

RECURSIVE Nuls(_)
Nuls(n) == IF n <= 0 THEN <<>> ELSE <<NUL>> \o Nuls(n - 1)

HexChars == <<"0", "1", "2", "3", "4", "5", "6", "7",
              "8", "9", "a", "b", "c", "d", "e", "f">>

RECURSIVE Hex(_)
Hex(n) == IF n < 16 THEN HexChars[n + 1]
          ELSE Hex(n \div 16) \o HexChars[(n % 16) + 1]

RECURSIVE HexLen(_)
HexLen(n) == IF n < 16 THEN 1 ELSE 1 + HexLen(n \div 16)

RECURSIVE Zeros(_)
Zeros(n) == IF n <= 0 THEN "" ELSE "0" \o Zeros(n - 1)

\* Tname without the zero padding.
Tname_Unpadded(n) == Hex(n)

\* "{0:0{1}x}".format(itar, 6): lower-case hex, zero-padded to width 6.
Tname(n) == Zeros(6 - HexLen(n)) \o Hex(n)

Tfname(n) == Tname(n) \o ".tar"

\* hashlib.md5 over a byte string; collisions are not modelled.
Md5(bytes) == <<"md5", bytes>>

\* tarinfo.mtime of entry p, and datetime.utcfromtimestamp.
StMtime(p) == 1000 + p
Utcfromtimestamp(t) == <<"utc", t>>

\* len(tarinfo.tobuf()): whole blocks.
HdrLen == HeaderBlocks * BLOCKSIZE

\* tarinfo.tobuf(): the header blocks naming the entry.
Header(p) == [k \in 1..HdrLen |-> <<"h", p, k>>]

\* The bytes f.read returns for offsets from+1..to of entry p.
Content(p, from, to) == [j \in 1..(to - from) |-> <<"d", p, from + j>>]


\* ------------------------------------------------------------ file system
\* What the file system does when addfile touches an entry whose
\* pre-measured size is m: its kind, the size lstat reports (tsize, 0 for a
\* non-regular entry), the number of bytes the reads deliver (rlen), and the
\* call that raises, if any; failat is the read call that raises.
FileEnvs(m) ==
    { [kind |-> "file", tsize |-> m, rlen |-> r, fault |-> "none", failat |-> 0] :
        r \in {m, m + 1} \cup (IF m > 0 THEN {m - 1} ELSE {}) }
    \cup
    { [kind |-> "file", tsize |-> m, rlen |-> m, fault |-> f, failat |-> 0] :
        f \in {"gettarinfo", "open"} }
    \cup
    { [kind |-> "file", tsize |-> m, rlen |-> m, fault |-> "read", failat |-> k] :
        k \in 1..Min(2, (m \div BLOCK_SIZE) + 1) }

DirEnvs ==
    { [kind |-> "dir", tsize |-> 0, rlen |-> 0, fault |-> f, failat |-> 0] :
        f \in {"none", "gettarinfo"} }

EntryEnvs(m) == FileEnvs(m) \cup DirEnvs

\* ---------------------------------------------------------------- addfile
\* Result of addfile: raised, the tar's bytes and tar.offset afterwards, and
\* the returned (offset, size, mtime, md5).
Raise(bytes, off) ==
    [raised |-> TRUE, bytes |-> bytes, offset |-> off, ret |-> <<>>]

\* lines 109-114: padding and offset advance, both from tarinfo.size.
PadLen(size) ==
    IF size % BLOCKSIZE > 0 THEN BLOCKSIZE - (size % BLOCKSIZE) ELSE 0

Blocks(size) ==
    (size \div BLOCKSIZE) + (IF size % BLOCKSIZE > 0 THEN 1 ELSE 0)

\* lines 103-115: the read loop.  pos bytes were read by nread calls; h is
\* what hash_md5 was fed.
RECURSIVE ReadLoop(_, _, _, _, _, _, _)
ReadLoop(p, e, pos, nread, bytes, off, h) ==
    IF e.fault = "read" /\ e.failat = nread + 1
    THEN [raised |-> TRUE, bytes |-> bytes, offset |-> off, h |-> h]
    ELSE LET s == Content(p, pos, Min(pos + BLOCK_SIZE, e.rlen))
             bytes1 == IF Len(s) > 0 THEN bytes \o s ELSE bytes
             h1 == IF Len(s) > 0 THEN h \o s ELSE h
         IN  IF Len(s) < BLOCK_SIZE
             THEN [raised |-> FALSE,
                   bytes |-> bytes1 \o Nuls(PadLen(e.tsize)),
                   offset |-> off + Blocks(e.tsize) * BLOCKSIZE,
                   h |-> h1]
             ELSE ReadLoop(p, e, pos + Len(s), nread + 1, bytes1, off, h1)

\* lines 96-122.
AddfileOp(bytes, taroffset, p, e) ==
    LET offset == taroffset
    IN  IF e.fault = "gettarinfo" THEN Raise(bytes, taroffset)
        ELSE
        LET bytes1 == bytes \o Header(p)
            off1 == taroffset + HdrLen
            mtime == Utcfromtimestamp(StMtime(p))
        IN  IF e.kind = "file"
            THEN IF e.fault = "open" THEN Raise(bytes1, off1)
                 ELSE LET r == ReadLoop(p, e, 0, 0, bytes1, off1, <<>>)
                      IN  IF r.raised THEN Raise(r.bytes, r.offset)
                          ELSE [raised |-> FALSE, bytes |-> r.bytes,
                                offset |-> r.offset,
                                ret |-> <<offset, e.tsize, mtime, Md5(r.h)>>]
            ELSE [raised |-> FALSE, bytes |-> bytes1, offset |-> off1,
                  ret |-> <<offset, e.tsize, mtime, "None">>]

\* ------------------------------------------------------------------- rows
\* line 66: (file, size, mtime, md5, tfname, offset), in column order of
\* table files.
Row(name, ret, tfname) ==
    [name |-> name, size |-> ret[2], mtime |-> ret[3], md5 |-> ret[4],
     tar |-> tfname, offset |-> ret[1]]

\* CloseNow without the test for the last entry.
CloseNow_NoFinalClose(idx, n, tsz, fs, maxsize) ==
    IF idx >= n - 1 THEN FALSE ELSE tsz + fs[idx + 2][2] > maxsize

\* CloseNow testing the next entry alone, without the size accumulated.
CloseNow_NextOnly(idx, n, tsz, fs, maxsize) ==
    IF idx = n - 1 THEN TRUE ELSE fs[idx + 2][2] > maxsize

\* CloseNow testing the size reached instead of looking one entry ahead.
CloseNow_NoLookahead(idx, n, tsz, fs, maxsize) ==
    IF idx = n - 1 THEN TRUE ELSE tsz > maxsize

\* CloseNow with the size limit left out.
CloseNow_LastOnly(idx, n, tsz, fs, maxsize) == idx = n - 1

\* lines 72-74.
CloseNow(idx, n, tsz, fs, maxsize) ==
    IF idx = n - 1 THEN TRUE ELSE tsz + fs[idx + 2][2] > maxsize

\* tarfile.TarFile.close(): two NUL blocks, then fill up to RECORDSIZE,
\* computed from tar.offset.
CloseBytes(bytes, off) ==
    LET off1 == off + 2 * BLOCKSIZE
        rem == off1 % RECORDSIZE
    IN  bytes \o Nuls(2 * BLOCKSIZE)
              \o (IF rem > 0 THEN Nuls(RECORDSIZE - rem) ELSE <<>>)

NoTar == [offset |-> 0, closed |-> TRUE]

\* The checks create() makes before it builds chunks: lines 87, 97, 104, 111.
SetupChecks == {"isdir", "mkdir", "empty", "cache"}

\* ------------------------------------------------------------------- Init
\* create() line 191 calls with itar = -1 on a fresh index.
Init ==
    /\ pc = "measure"
    /\ config \in [maxsize : MaxSizes, keep : Keeps]
    /\ files = <<>>
    /\ exc = "none"
    /\ failures = <<>>
    /\ newtar = TRUE
    /\ i = 0
    /\ archived = <<>>
    /\ tarsize = 0
    /\ itar = -1
    /\ tar = NoTar
    /\ chunks = <<>>
    /\ pending = <<>>
    /\ index = <<>>
    /\ seen = <<>>
    /\ puts = <<>>
    /\ cpc = "addfiles"
    /\ hpss = "remote"
    /\ db = "new"
    /\ conn = "open"
    /\ checked = SetupChecks
    /\ cexc = "none"
    /\ arg = <<>>
    /\ res = <<>>

\* ---------------------------------------------------------------- actions
\* line 42 for a list of n entries, every getsize succeeding; lines 45-47.
Measure ==
    /\ pc = "measure"
    /\ \E n \in 0..MaxFiles : \E sz \in [1..n -> SizeSet] :
          files' = [k \in 1..n |-> <<k, sz[k]>>]
    /\ failures' = <<>>
    /\ newtar' = TRUE
    /\ i' = 0
    /\ pc' = "loop"
    /\ UNCHANGED <<config, exc, archived, tarsize, itar, tar, chunks,
                   pending, index, seen>>
    /\ UNCHANGED <<puts, cvars, fvars>>

\* line 42 when os.path.getsize raises for an entry: nothing catches it.
MeasureFail ==
    /\ pc = "measure"
    /\ exc' = "getsize"
    /\ pc' = "aborted"
    /\ UNCHANGED <<config, files, failures, newtar, i, archived, tarsize,
                   itar, tar, chunks, pending, index, seen>>
    /\ UNCHANGED <<puts, cvars, fvars>>

\* lines 51-59.
OpenTar ==
    /\ pc = "loop"
    /\ i < Len(files)
    /\ newtar
    /\ newtar' = FALSE
    /\ archived' = <<>>
    /\ tarsize' = 0
    /\ itar' = itar + 1
    /\ tar' = [offset |-> 0, closed |-> FALSE]
    /\ chunks' = Append(chunks, [name |-> Tfname(itar + 1), bytes |-> <<>>,
                                 open |-> TRUE, sent |-> FALSE, local |-> TRUE])
    /\ UNCHANGED <<pc, config, files, exc, failures, i, pending, index, seen>>
    /\ UNCHANGED <<puts, cvars, fvars>>

\* OnFailure with the path not recorded.
OnFailure_Dropped(fl, path) == fl

\* lines 68-70: the except clause.
OnFailure(fl, path) == Append(fl, path)

\* lines 62-70: the try block around addfile.
Archive ==
    /\ pc = "loop"
    /\ i < Len(files)
    /\ ~newtar
    /\ \E e \in EntryEnvs(files[i + 1][2]) :
         LET file == files[i + 1]
             r == AddfileOp(chunks[itar + 1].bytes, tar.offset, file[1], e)
         IN  /\ chunks' = [chunks EXCEPT ![itar + 1].bytes = r.bytes]
             /\ tar' = [tar EXCEPT !.offset = r.offset]
             /\ seen' = Append(seen, [chunk |-> itar, ok |-> ~r.raised])
             /\ IF r.raised
                THEN /\ failures' = OnFailure(failures, file[1])
                     /\ UNCHANGED <<archived, tarsize>>
                ELSE /\ archived' = Append(archived,
                                           Row(file[1], r.ret, chunks[itar + 1].name))
                     /\ tarsize' = tarsize + file[2]
                     /\ UNCHANGED failures
    /\ pc' = "decide"
    /\ UNCHANGED <<config, files, exc, newtar, i, itar, pending, index>>
    /\ UNCHANGED <<puts, cvars, fvars>>

\* line 74, condition false: next iteration.
KeepOpen ==
    /\ pc = "decide"
    /\ ~CloseNow(i, Len(files), tarsize, files, config.maxsize)
    /\ i' = i + 1
    /\ pc' = "loop"
    /\ UNCHANGED <<config, files, exc, failures, newtar, archived, tarsize,
                   itar, tar, chunks, pending, index, seen>>
    /\ UNCHANGED <<puts, cvars, fvars>>

\* CloseTar with the rows committed when the tar is closed, before line 81.
CloseTar_CommitsFirst ==
    /\ pc = "decide"
    /\ CloseNow(i, Len(files), tarsize, files, config.maxsize)
    /\ chunks' = [chunks EXCEPT
                    ![itar + 1].bytes = CloseBytes(@, tar.offset),
                    ![itar + 1].open = FALSE]
    /\ tar' = [tar EXCEPT !.closed = TRUE]
    /\ index' = index \o archived
    /\ pc' = "put"
    /\ UNCHANGED <<config, files, exc, failures, newtar, i, archived,
                   tarsize, itar, pending, seen>>
    /\ UNCHANGED <<puts, cvars, fvars>>

\* lines 74-78: condition true, tar.close().
CloseTar ==
    /\ pc = "decide"
    /\ CloseNow(i, Len(files), tarsize, files, config.maxsize)
    /\ chunks' = [chunks EXCEPT
                    ![itar + 1].bytes = CloseBytes(@, tar.offset),
                    ![itar + 1].open = FALSE]
    /\ tar' = [tar EXCEPT !.closed = TRUE]
    /\ pc' = "put"
    /\ UNCHANGED <<config, files, exc, failures, newtar, i, archived,
                   tarsize, itar, pending, index, seen>>
    /\ UNCHANGED <<puts, cvars, fvars>>

\* hpss_put(hpss, file, keep) when the transfer succeeds: the file is on the
\* remote tier and its local copy is removed unless keep.
Hpss_put(chunk, keep) == [chunk EXCEPT !.sent = TRUE, !.local = keep]

\* line 81, hpss_put returns.
PutOk ==
    /\ pc = "put"
    /\ chunks' = [chunks EXCEPT ![itar + 1] = Hpss_put(@, config.keep)]
    /\ pc' = "insert"
    /\ UNCHANGED <<config, files, exc, failures, newtar, i, archived,
                   tarsize, itar, tar, pending, index, seen>>
    /\ puts' = Append(puts, [file |-> chunks[itar + 1].name, keep |-> config.keep])
    /\ UNCHANGED <<cvars, fvars>>

\* PutFail with the exception caught and logged around line 81.
PutFail_Swallowed ==
    /\ pc = "put"
    /\ exc' = "hpss_put"
    /\ pc' = "insert"
    /\ UNCHANGED <<config, files, failures, newtar, i, archived, tarsize,
                   itar, tar, chunks, pending, index, seen>>
    /\ UNCHANGED <<puts, cvars, fvars>>

\* line 81, hpss_put reports a failed transfer by raising: nothing in
\* addfiles catches it.
PutFail ==
    /\ pc = "put"
    /\ exc' = "hpss_put"
    /\ pc' = "aborted"
    /\ UNCHANGED <<config, files, failures, newtar, i, archived, tarsize,
                   itar, tar, chunks, pending, index, seen>>
    /\ UNCHANGED <<puts, cvars, fvars>>

\* ExecutemanyOp on a connection in autocommit mode: the first row is
\* committed by the statement itself.
ExecutemanyOp_Autocommit(ix, pend, rows) ==
    IF rows = <<>> THEN <<ix, pend>>
    ELSE <<Append(ix, rows[1]), pend \o Tail(rows)>>

\* lines 84-85: cur.executemany inserts the rows in the open transaction.
ExecutemanyOp(ix, pend, rows) == <<ix, pend \o rows>>

Executemany ==
    /\ pc = "insert"
    /\ LET r == ExecutemanyOp(index, pending, archived)
       IN  index' = r[1] /\ pending' = r[2]
    /\ pc' = "commit"
    /\ UNCHANGED <<config, files, exc, failures, newtar, i, archived,
                   tarsize, itar, tar, chunks, seen>>
    /\ UNCHANGED <<puts, cvars, fvars>>

\* Commit with the commit left to the end of the session.
Commit_Deferred ==
    /\ pc = "commit"
    /\ newtar' = TRUE
    /\ i' = i + 1
    /\ pc' = "loop"
    /\ UNCHANGED <<config, files, exc, failures, archived, tarsize, itar,
                   tar, chunks, seen, pending, index>>
    /\ UNCHANGED <<puts, cvars, fvars>>

\* lines 86-89: con.commit(), newtar = True, next iteration.
Commit ==
    /\ pc = "commit"
    /\ index' = index \o pending
    /\ pending' = <<>>
    /\ newtar' = TRUE
    /\ i' = i + 1
    /\ pc' = "loop"
    /\ UNCHANGED <<config, files, exc, failures, archived, tarsize, itar,
                   tar, chunks, seen>>
    /\ UNCHANGED <<puts, cvars, fvars>>

\* line 91 (and line 48 with no iteration left).
Return ==
    /\ pc = "loop"
    /\ i >= Len(files)
    /\ pc' = "done"
    /\ UNCHANGED <<config, files, exc, failures, newtar, i, archived,
                   tarsize, itar, tar, chunks, pending, index, seen>>
    /\ UNCHANGED <<puts, cvars, fvars>>

\* The process dies while addfiles runs: memory and the open transaction
\* are lost, the files on disk and the committed index stay.
Crash ==
    /\ pc \notin {"done", "aborted", "crashed"}
    /\ pc' = "crashed"
    /\ pending' = <<>>
    /\ files' = <<>>
    /\ failures' = <<>>
    /\ archived' = <<>>
    /\ tarsize' = 0
    /\ newtar' = TRUE
    /\ i' = 0
    /\ tar' = NoTar
    /\ UNCHANGED <<config, exc, itar, chunks, index, seen>>
    /\ UNCHANGED <<puts, cvars, fvars>>

Next ==
    \/ Measure
    \/ MeasureFail
    \/ OpenTar
    \/ Archive
    \/ KeepOpen
    \/ CloseTar
    \/ PutOk
    \/ PutFail
    \/ Executemany
    \/ Commit
    \/ Return
    \/ Crash

Spec == Init /\ [][Next]_vars

TypeOK ==
    /\ pc \in {"measure", "loop", "decide", "put", "insert", "commit",
               "done", "aborted", "crashed"}
    /\ exc \in {"none", "getsize", "hpss_put"}
    /\ i \in 0..MaxFiles
    /\ itar \in -1..MaxFiles


\* ------------------------------------------------------- claim vocabulary
Range(f) == {f[k] : k \in DOMAIN f}

Ordinals == 0..(Len(chunks) - 1)

\* The entries addfile returned for while chunk c was open, in order.
OkPaths(c) ==
    SelectSeq([k \in 1..Len(seen) |-> k],
              LAMBDA k : seen[k].ok /\ seen[k].chunk = c)

\* The entries of all chunks before c for which addfile returned, in order.
OkPathsBefore(c) ==
    SelectSeq([k \in 1..Len(seen) |-> k],
              LAMBDA k : seen[k].ok /\ seen[k].chunk < c)

\* The entries for which addfile raised, in order.
FailedPaths ==
    SelectSeq([k \in 1..Len(seen) |-> k], LAMBDA k : ~seen[k].ok)

Names(rows) == [k \in 1..Len(rows) |-> rows[k].name]

\* The committed rows that name chunk c.
RowsOf(c) == SelectSeq(index, LAMBDA r : r.tar = chunks[c + 1].name)

\* Chunk c has been fully written, closed and transferred.
Durable(c) == ~chunks[c + 1].open /\ chunks[c + 1].sent

\* Every committed row belongs to an entry addfile returned for, in a chunk
\* that is closed and transferred.
RowsOnlyOfDurable ==
    \A r \in Range(index) :
        \E c \in Ordinals :
            /\ r.tar = chunks[c + 1].name
            /\ Durable(c)
            /\ r.name \in Range(OkPaths(c))

\* Every entry archived into a closed and transferred chunk has a row.
DurableAllIndexed ==
    \A c \in Ordinals : Durable(c) => Names(RowsOf(c)) = OkPaths(c)

\* C1 as stated: in every reachable state a FileRecord is in the committed
\* index if and only if its chunk is fully written, closed and transferred.
C1_IndexIffDurable == RowsOnlyOfDurable /\ DurableAllIndexed

\* C1 amended: in every reachable state a committed FileRecord belongs to a
\* chunk that is fully written, closed and transferred; and except between
\* the return of hpss_put and con.commit() (or after a crash there) every
\* entry archived into such a chunk has its FileRecord committed.
C1_IndexOnlyDurable ==
    /\ RowsOnlyOfDurable
    /\ pc \notin {"insert", "commit", "crashed"} => DurableAllIndexed

\* Two chunks are transferred and indexed while a third is open with an
\* archived entry that has no row.
C1_Witness ==
    /\ pc = "decide"
    /\ Len(chunks) = 3
    /\ Len(index) >= 2
    /\ chunks[3].open
    /\ Len(archived) = 1

\* C2: when the transfer of chunk k fails the session aborts, no row of
\* chunk k is committed, no later chunk is opened, and the committed index
\* is exactly the rows of chunks 0..k-1.
C2_TransferFaultAborts ==
    exc = "hpss_put" =>
        /\ pc = "aborted"
        /\ Len(chunks) = itar + 1
        /\ ~chunks[itar + 1].sent
        /\ RowsOf(itar) = <<>>
        /\ Names(index) = OkPathsBefore(itar)
        /\ \A c \in 0..(itar - 1) : Names(RowsOf(c)) = OkPaths(c)

\* The transfer of the second chunk failed after the first was committed
\* with a row, while the second had an archived entry.
C2_Witness ==
    /\ exc = "hpss_put"
    /\ itar = 1
    /\ Len(index) >= 1
    /\ Len(archived) >= 1

\* C3: at every step, a crash included, the committed index holds for each
\* chunk none or all of the entries added to it; a crash leaves the
\* committed index as it was, so none before the commit and all after it.
C3_ChunkRowsAllOrNone ==
    /\ [](\A c \in Ordinals :
            \/ RowsOf(c) = <<>>
            \/ Names(RowsOf(c)) = OkPaths(c))
    /\ [](pc \in {"insert", "commit"} => RowsOf(itar) = <<>>)
    /\ [][pc' = "crashed" => index' = index]_vars
    /\ [][pc = "commit" /\ pc' = "loop" =>
            Names(RowsOf(itar))' = OkPaths(itar)]_vars

\* A crash with the rows of a two-entry chunk inserted but not committed.
C3_Witness ==
    /\ pc = "crashed"
    /\ Len(chunks) = 2
    /\ Len(OkPaths(1)) = 2
    /\ chunks[2].sent
    /\ RowsOf(1) = <<>>
    /\ Len(RowsOf(0)) = 1


\* Every header or content byte in a chunk belongs to an entry that was
\* processed while that chunk was open: no entry has bytes in two chunks.
NoEntrySplit ==
    \A c \in Ordinals :
        \A b \in Range(chunks[c + 1].bytes) :
            b[1] # "n" => seen[b[2]].chunk = c

\* Sum of the pre-measured sizes of the entries ps (a sequence of paths).
RECURSIVE SumSizes(_)
SumSizes(ps) ==
    IF ps = <<>> THEN 0 ELSE files[Head(ps)][2] + SumSizes(Tail(ps))

RECURSIVE MaxSizeOf(_)
MaxSizeOf(ps) ==
    IF ps = <<>> THEN 0
    ELSE LET m == MaxSizeOf(Tail(ps))
             h == files[Head(ps)][2]
         IN  IF h > m THEN h ELSE m

\* C4: after entry i addfiles closes the chunk exactly when i is the last
\* entry or the accumulated size plus the size of entry i+1 exceeds
\* config.maxsize; with maxsize 10 and sizes 6, 6, 1 all archived, chunk 0
\* holds entry 1 and chunk 1 holds entries 2 and 3; the bytes of an entry
\* are in one chunk only.
C4_CloseDecision ==
    /\ [][pc = "decide" /\ pc' # "crashed" =>
            /\ pc' \in {"put", "loop"}
            /\ pc' = "put" <=>
                 \/ i = Len(files) - 1
                 \/ i < Len(files) - 1 /\
                    SumSizes(OkPaths(itar)) + files[i + 2][2] > config.maxsize]_vars
    /\ []((/\ pc = "done"
           /\ config.maxsize = 10
           /\ files = <<<<1, 6>>, <<2, 6>>, <<3, 1>>>>
           /\ FailedPaths = <<>>)
          => (/\ Len(chunks) = 2
              /\ OkPaths(0) = <<1>>
              /\ OkPaths(1) = <<2, 3>>
              /\ Names(RowsOf(0)) = <<1>>
              /\ Names(RowsOf(1)) = <<2, 3>>))
    /\ []NoEntrySplit

\* The scenario of the claim, run to the end.
C4_Witness ==
    /\ pc = "done"
    /\ config.maxsize = 10
    /\ files = <<<<1, 6>>, <<2, 6>>, <<3, 1>>>>
    /\ FailedPaths = <<>>
    /\ Len(chunks) = 2

\* C5: for every closed chunk the accumulated pre-measured size of its
\* archived entries minus the size of the largest of them is at most
\* config.maxsize.
C5_SizeBound ==
    pc # "crashed" =>
        \A c \in Ordinals :
            ~chunks[c + 1].open =>
                SumSizes(OkPaths(c)) - MaxSizeOf(OkPaths(c)) <= config.maxsize

\* A closed chunk of two entries, and a closed chunk whose only entry is
\* larger than config.maxsize.
C5_Witness ==
    /\ pc = "done"
    /\ \E c \in Ordinals : Len(OkPaths(c)) = 2
    /\ \E c \in Ordinals :
          /\ Len(OkPaths(c)) = 1
          /\ SumSizes(OkPaths(c)) > config.maxsize

\* C6: a session that returns reports exactly the entries whose archiving
\* failed, each once and in enumeration order; the committed index holds
\* one row for each other entry and none for a failed one; every chunk
\* opened has been closed.
C6_FailureIsolation ==
    pc = "done" =>
        /\ Len(seen) = Len(files)
        /\ failures = FailedPaths
        /\ Names(index) = SelectSeq([k \in 1..Len(files) |-> k],
                                    LAMBDA k : seen[k].ok)
        /\ \A k \in 1..Len(files) :
              Cardinality({n \in 1..Len(index) : index[n].name = k})
                  = (IF seen[k].ok THEN 1 ELSE 0)
        /\ \A c \in Ordinals : ~chunks[c + 1].open /\ chunks[c + 1].sent

\* One failed entry among three: one failure, two rows.
C6_Witness ==
    /\ pc = "done"
    /\ Len(files) = 3
    /\ Len(failures) = 1
    /\ Len(index) = 2


\* The chunk a row names.
ChunkOfRow(r) == chunks[CHOOSE k \in 1..Len(chunks) : chunks[k].name = r.tar]

\* The content bytes of entry p physically in a chunk, in order.
DataOf(bytes, p) == SelectSeq(bytes, LAMBDA b : b[1] = "d" /\ b[2] = p)

\* C7: a fault on a single entry, at whichever step addfiles touches the
\* entry, never aborts the run: addfiles is left by an exception only for
\* a transfer fault.
C7_EntryFaultContained == pc = "aborted" => exc = "hpss_put"

\* C8: when archiving an entry fails, the open chunk is as it was before
\* the entry: no byte added, tar.offset and the accumulated size unchanged,
\* no row queued.
C8_FailedEntryLeavesChunk ==
    [][Len(failures') > Len(failures) =>
          /\ chunks' = chunks
          /\ tar' = tar
          /\ tarsize' = tarsize
          /\ archived' = archived]_vars

\* C9: the offset of every committed row is the byte position in its chunk
\* at which the header of that entry begins.
C9_OffsetIsHeaderPosition ==
    \A r \in Range(index) :
        LET bytes == ChunkOfRow(r).bytes
        IN  /\ r.offset + HdrLen <= Len(bytes)
            /\ SubSeq(bytes, r.offset + 1, r.offset + HdrLen) = Header(r.name)

\* C10: the digest of every committed row of a regular file is the digest
\* of the content bytes written to the chunk for the entry, and these are
\* the size bytes that follow the header at the row's offset.
C10_DigestOfRecordedBytes ==
    \A r \in Range(index) :
        r.md5 # "None" =>
            LET bytes == ChunkOfRow(r).bytes
                from == r.offset + HdrLen
            IN  /\ r.md5 = Md5(DataOf(bytes, r.name))
                /\ from + r.size <= Len(bytes)
                /\ r.md5 = Md5(SubSeq(bytes, from + 1, from + r.size))


\* C17: addfiles holds at most one open chunk, and it is the last one
\* opened; a chunk is transferred only after it is closed, its rows are
\* inserted and committed only after its transfer, and a chunk is opened
\* only after all rows of the chunk before it have been committed.
C17_OneChunkInOrder ==
    /\ \A c \in Ordinals :
          /\ chunks[c + 1].open => c = Len(chunks) - 1
          /\ chunks[c + 1].sent => ~chunks[c + 1].open
          /\ RowsOf(c) # <<>> => chunks[c + 1].sent
          /\ c < Len(chunks) - 1 =>
                Durable(c) /\ Names(RowsOf(c)) = OkPaths(c)
    /\ pending # <<>> => Durable(Len(chunks) - 1)
    /\ Len(puts) <= Len(chunks)
    /\ \A k \in 1..Len(puts) :
          puts[k].file = chunks[k].name /\ chunks[k].sent

\* The second chunk is open and holds an entry, after the rows of the first
\* were committed.
C17_Witness ==
    /\ Len(chunks) = 2
    /\ chunks[2].open
    /\ RowsOf(0) # <<>>
    /\ OkPaths(1) # <<>>
    /\ pc = "decide"

\* The chunk file names of ordinals 0, 1, 2, ...
TarNames == <<"000000.tar", "000001.tar", "000002.tar", "000003.tar",
              "000004.tar">>

\* The rows addfiles has built: committed, inserted or still in its list.
AllRows == Range(index) \cup Range(pending) \cup Range(archived)

\* C18: the chunks opened carry the ordinals 0, 1, 2, ... in opening order
\* without gap or reuse; the file name of a chunk is its ordinal in
\* zero-padded lower-case hexadecimal, distinct for distinct ordinals; and
\* the chunk identifier of every row is the name of the chunk that was open
\* when the entry was added.
C18_OrdinalNames ==
    /\ Len(chunks) = itar + 1
    /\ \A c \in Ordinals :
          /\ chunks[c + 1].name = Tfname(c)
          /\ c + 1 <= Len(TarNames) => chunks[c + 1].name = TarNames[c + 1]
          /\ \A d \in Ordinals : c # d => chunks[c + 1].name # chunks[d + 1].name
    /\ \A r \in AllRows :
          /\ seen[r.name].ok
          /\ r.tar = chunks[seen[r.name].chunk + 1].name
    /\ pc = "measure" =>
          /\ Tname(10) = "00000a"
          /\ Tname(255) = "0000ff"
          /\ Tname(4096) = "001000"
          /\ Tname(16777215) = "ffffff"
          /\ \A a \in 0..40 : \A b \in 0..40 : a # b => Tname(a) # Tname(b)

\* Three chunks were opened, each with a committed row.
C18_Witness ==
    /\ pc = "done"
    /\ itar = 2
    /\ \A c \in Ordinals : Len(RowsOf(c)) = 1

\* C19: an archived entry whose pre-measured size exceeds config.maxsize
\* is the only entry recorded in its chunk, and a chunk with two or more
\* recorded entries has an accumulated pre-measured size of at most
\* config.maxsize, whichever entries fail.
C19_OversizeAlone ==
    pc # "crashed" =>
        \A c \in Ordinals :
            /\ MaxSizeOf(OkPaths(c)) > config.maxsize => Len(OkPaths(c)) = 1
            /\ Len(OkPaths(c)) >= 2 =>
                  SumSizes(OkPaths(c)) <= config.maxsize

\* A failed small entry, then an oversize entry archived alone in the next
\* chunk, then a last small entry in a third chunk.
C19_Witness ==
    /\ pc = "done"
    /\ config.maxsize = 5
    /\ files = <<<<1, 1>>, <<2, 6>>, <<3, 1>>>>
    /\ FailedPaths = <<1>>
    /\ OkPaths(1) = <<2>>
    /\ OkPaths(2) = <<3>>

\* line 42 for a list of at most MaxTree entries.
MeasureTree == Measure /\ Len(files') <= MaxTree

\* addfiles when every transfer succeeds and the process is not killed.
NextLive ==
    \/ MeasureTree
    \/ MeasureFail
    \/ OpenTar
    \/ Archive
    \/ KeepOpen
    \/ CloseTar
    \/ PutOk
    \/ Executemany
    \/ Commit
    \/ Return

\* addfiles is sequential code: it takes its next step whenever it has one.
SpecLive == Init /\ [][NextLive]_vars /\ WF_vars(NextLive)

\* The chunks none of whose entries was archived.
EmptyChunks == {c \in Ordinals : OkPaths(c) = <<>>}

\* C20: if every transfer succeeds addfiles terminates; when it returns it
\* has made one pass over the entries, no chunk is open, every chunk opened
\* was closed and transferred exactly once, a chunk all of whose entries
\* failed included, with no row committed for it; for an empty list no
\* chunk is opened and nothing is transferred.
C20_TerminatesAllTransferred ==
    /\ <>[](pc \in {"done", "aborted"})
    /\ [](pc = "aborted" => exc = "getsize" /\ chunks = <<>> /\ puts = <<>>)
    /\ [](pc = "done" =>
            /\ i = Len(files)
            /\ Len(seen) = Len(files)
            /\ \A c \in Ordinals :
                  /\ ~chunks[c + 1].open
                  /\ chunks[c + 1].sent
                  /\ \E k \in 1..Len(seen) : seen[k].chunk = c
            /\ Len(puts) = Len(chunks)
            /\ \A k \in 1..Len(puts) : puts[k].file = chunks[k].name
            /\ \A c \in EmptyChunks : RowsOf(c) = <<>>
            /\ pending = <<>>
            /\ (files = <<>> => chunks = <<>> /\ puts = <<>>))

\* addfiles has returned; the only entry of the first chunk failed, and the
\* chunk was transferred without rows.
C20_Witness ==
    /\ pc = "done"
    /\ Len(chunks) = 2
    /\ 0 \in EmptyChunks
    /\ chunks[1].sent
    /\ Len(puts) = 2
    /\ index # <<>>

\* ------------------------------------------------------------------ create
\* The variables of addfiles.
avars == <<pc, config, files, exc, failures, newtar, i, archived, tarsize,
           itar, tar, chunks, pending, index, seen>>

\* get_db_filename(cache): the index file in the cache.
DbName == "index.db"

\* create() before line 84: the arguments are parsed; the cache may hold
\* the index of an earlier session.
InitCreate ==
    /\ pc = "measure"
    /\ config \in [maxsize : MaxSizes, keep : BOOLEAN]
    /\ files = <<>>
    /\ exc = "none"
    /\ failures = <<>>
    /\ newtar = TRUE
    /\ i = 0
    /\ archived = <<>>
    /\ tarsize = 0
    /\ itar = -1
    /\ tar = NoTar
    /\ chunks = <<>>
    /\ pending = <<>>
    /\ index = <<>>
    /\ seen = <<>>
    /\ puts = <<>>
    /\ cpc = "isdir"
    /\ hpss \in {"none", "remote"}
    /\ db \in {"absent", "old"}
    /\ conn = "none"
    /\ checked = {}
    /\ cexc = "none"
    /\ arg = <<>>
    /\ res = <<>>

\* AfterIsdir with the remote checks and the cache creation left for later.
AfterIsdir_ChecksLater(h) == "rmdb"

\* line 92: the remote checks are made unless hpss is "none".
AfterIsdir(h) == IF h # "none" THEN "mkdir" ELSE "cache"

\* lines 84-87: the input path is a directory.
IsdirOk ==
    /\ cpc = "isdir"
    /\ checked' = checked \cup {"isdir"}
    /\ cpc' = AfterIsdir(hpss)
    /\ UNCHANGED <<avars, puts, hpss, db, conn, cexc, fvars>>

\* lines 87-90: it is not; create() raises.
IsdirFail ==
    /\ cpc = "isdir"
    /\ cexc' = "isdir"
    /\ cpc' = "failed"
    /\ UNCHANGED <<avars, puts, hpss, db, conn, checked, fvars>>

\* lines 93-97: run_command makes the remote directory.
MkdirOk ==
    /\ cpc = "mkdir"
    /\ checked' = checked \cup {"mkdir"}
    /\ cpc' = "empty"
    /\ UNCHANGED <<avars, puts, hpss, db, conn, cexc, fvars>>

\* lines 93-97: run_command raises.
MkdirFail ==
    /\ cpc = "mkdir"
    /\ cexc' = "mkdir"
    /\ cpc' = "failed"
    /\ UNCHANGED <<avars, puts, hpss, db, conn, checked, fvars>>

\* lines 99-104: run_command finds the remote directory usable.
EmptyOk ==
    /\ cpc = "empty"
    /\ checked' = checked \cup {"empty"}
    /\ cpc' = "cache"
    /\ UNCHANGED <<avars, puts, hpss, db, conn, cexc, fvars>>

\* lines 99-104: run_command raises.
EmptyFail ==
    /\ cpc = "empty"
    /\ cexc' = "empty"
    /\ cpc' = "failed"
    /\ UNCHANGED <<avars, puts, hpss, db, conn, checked, fvars>>

\* lines 106-117: the cache directory is made or exists already.
CacheOk ==
    /\ cpc = "cache"
    /\ checked' = checked \cup {"cache"}
    /\ cpc' = "rmdb"
    /\ UNCHANGED <<avars, puts, hpss, db, conn, cexc, fvars>>

\* lines 112-116: os.makedirs fails with another error; create() raises.
CacheFail ==
    /\ cpc = "cache"
    /\ cexc' = "cache"
    /\ cpc' = "failed"
    /\ UNCHANGED <<avars, puts, hpss, db, conn, checked, fvars>>

\* lines 122-125: an existing index file is removed.
RemoveDb ==
    /\ cpc = "rmdb"
    /\ db' = "absent"
    /\ cpc' = "connect"
    /\ UNCHANGED <<avars, puts, hpss, conn, checked, cexc, fvars>>

\* lines 126-162: the new index is created with its tables and the
\* configuration.
Connect ==
    /\ cpc = "connect"
    /\ db' = "new"
    /\ conn' = "open"
    /\ cpc' = "walk"
    /\ UNCHANGED <<avars, puts, hpss, checked, cexc, fvars>>

\* lines 164-188: the entry list is gathered.
Gather ==
    /\ cpc = "walk"
    /\ cpc' = "addfiles"
    /\ UNCHANGED <<avars, puts, hpss, db, conn, checked, cexc, fvars>>

\* line 191: the steps of addfiles, on the gathered list.
AddFilesStep ==
    /\ cpc = "addfiles"
    /\ \/ MeasureTree
       \/ MeasureFail
       \/ OpenTar
       \/ Archive
       \/ KeepOpen
       \/ CloseTar
       \/ PutOk
       \/ PutFail
       \/ Executemany
       \/ Commit
       \/ Return

\* line 191: addfiles returns the failures.
AddFilesReturns ==
    /\ cpc = "addfiles"
    /\ pc = "done"
    /\ cpc' = "close"
    /\ UNCHANGED <<avars, puts, hpss, db, conn, checked, cexc, fvars>>

\* line 191: the exception of addfiles leaves create().
AddFilesRaises ==
    /\ cpc = "addfiles"
    /\ pc = "aborted"
    /\ cexc' = exc
    /\ cpc' = "failed"
    /\ UNCHANGED <<avars, puts, hpss, db, conn, checked, fvars>>

\* lines 194-195: con.commit(), con.close().
CloseDb ==
    /\ cpc = "close"
    /\ index' = index \o pending
    /\ pending' = <<>>
    /\ conn' = "closed"
    /\ cpc' = "putindex"
    /\ UNCHANGED <<pc, config, files, exc, failures, newtar, i, archived,
                   tarsize, itar, tar, chunks, seen, puts, hpss, db, checked,
                   cexc, fvars>>

\* IndexKeep passing the keep flag of the session.
IndexKeep_Config(k) == k

\* line 196: the keep argument of the index transfer.
IndexKeep(k) == TRUE

\* line 196, hpss_put returns: the index is on the remote tier; its local
\* copy is removed unless keep.
PutIndexOk ==
    /\ cpc = "putindex"
    /\ puts' = Append(puts, [file |-> DbName, keep |-> IndexKeep(config.keep)])
    /\ db' = IF IndexKeep(config.keep) THEN db ELSE "absent"
    /\ cpc' = "report"
    /\ UNCHANGED <<avars, hpss, conn, checked, cexc, fvars>>

\* line 196, hpss_put raises.
PutIndexFail ==
    /\ cpc = "putindex"
    /\ cexc' = "hpss_put"
    /\ cpc' = "failed"
    /\ UNCHANGED <<avars, puts, hpss, db, conn, checked, fvars>>

\* lines 198-202: the failures are listed.
Report ==
    /\ cpc = "report"
    /\ cpc' = "done"
    /\ UNCHANGED <<avars, puts, hpss, db, conn, checked, cexc, fvars>>

NextCreate ==
    \/ IsdirOk
    \/ IsdirFail
    \/ MkdirOk
    \/ MkdirFail
    \/ EmptyOk
    \/ EmptyFail
    \/ CacheOk
    \/ CacheFail
    \/ RemoveDb
    \/ Connect
    \/ Gather
    \/ AddFilesStep
    \/ AddFilesReturns
    \/ AddFilesRaises
    \/ CloseDb
    \/ PutIndexOk
    \/ PutIndexFail
    \/ Report

SpecCreate == InitCreate /\ [][NextCreate]_vars

\* The checks create() has to pass for the destination given.
RequiredChecks == IF hpss = "none" THEN {"isdir", "cache"} ELSE SetupChecks

SetupFaults == {"isdir", "mkdir", "empty", "cache"}

\* C11: a setup fault aborts create() before any chunk is opened, before
\* any transfer and before an existing index is removed or a new one
\* created; chunks, transfers and the index are touched only after all
\* setup checks have passed.
C11_SetupFaultBeforeChunks ==
    /\ [](cexc \in SetupFaults =>
            /\ cpc = "failed"
            /\ pc = "measure"
            /\ chunks = <<>>
            /\ puts = <<>>
            /\ db # "new"
            /\ conn = "none")
    /\ [][cexc' \in SetupFaults => db' = db]_vars
    /\ [][(db' # db \/ conn' # conn \/ pc' # pc \/ chunks' # chunks
             \/ puts' # puts)
          => RequiredChecks \subseteq checked]_vars

\* The remote directory is not empty, with an index of an earlier session
\* in the cache: create() has failed and the old index is still there.
C11_Witness ==
    /\ cexc = "empty"
    /\ checked = {"isdir", "mkdir"}
    /\ db = "old"

\* The transfers of the index file so far.
IndexPuts == SelectSeq(puts, LAMBDA p : p.file = DbName)

\* C12: a session without fatal fault transfers the index exactly once,
\* after every chunk was transferred and its rows committed and after the
\* connection was committed and closed, and with keep set, so that the
\* local index stays, whatever config.keep is.
C12_IndexTransferredLast ==
    /\ Len(IndexPuts) <= 1
    /\ cpc \in {"report", "done"} => Len(IndexPuts) = 1
    /\ IndexPuts # <<>> =>
          /\ puts[Len(puts)].file = DbName
          /\ puts[Len(puts)].keep = TRUE
          /\ db = "new"
          /\ conn = "closed"
          /\ pending = <<>>
          /\ pc = "done"
          /\ Len(puts) = Len(chunks) + 1
          /\ \A c \in Ordinals :
                Durable(c) /\ Names(RowsOf(c)) = OkPaths(c)
                /\ puts[c + 1].file = chunks[c + 1].name

\* A session without --keep and with a failed entry has ended: two chunks
\* and then the index were transferred.
C12_Witness ==
    /\ cpc = "done"
    /\ config.keep = FALSE
    /\ Len(failures) = 1
    /\ Len(chunks) = 2
    /\ Len(puts) = 3


\* ------------------------------------------------------------ excludeFiles
\* A Python str is modelled as the sequence of its characters.

\* The index of the first c in s, 0 if there is none.
RECURSIVE Find(_, _)
Find(s, c) ==
    IF s = <<>> THEN 0
    ELSE IF Head(s) = c THEN 1
    ELSE LET k == Find(Tail(s), c) IN IF k = 0 THEN 0 ELSE k + 1

\* line 18, str.split(c): the pieces between the separators, empty pieces
\* included; the empty string gives one empty piece.
RECURSIVE Split(_, _)
Split(s, c) ==
    LET k == Find(s, c)
    IN  IF k = 0 THEN <<s>>
        ELSE <<SubSeq(s, 1, k - 1)>> \o Split(SubSeq(s, k + 1, Len(s)), c)

\* fnmatch.fnmatch(name, pat) on POSIX for patterns of literal characters,
\* "?" and "*": the whole name has to match, "?" is any one character and
\* "*" any run of characters, "/" included.
RECURSIVE Fnmatch(_, _)
Fnmatch(name, pat) ==
    IF pat = <<>> THEN name = <<>>
    ELSE IF Head(pat) = "*"
         THEN \E k \in 0..Len(name) :
                 Fnmatch(SubSeq(name, k + 1, Len(name)), Tail(pat))
    ELSE IF name = <<>> THEN FALSE
    ELSE (Head(pat) = "?" \/ Head(pat) = Head(name))
         /\ Fnmatch(Tail(name), Tail(pat))

\* lines 22-24 on the patterns from position k on: a pattern ending in "/"
\* gets "*" appended; indexing the last character of an empty pattern
\* raises IndexError.
RECURSIVE SlashStar(_, _)
SlashStar(pats, k) ==
    IF k > Len(pats) THEN [raised |-> FALSE, pats |-> pats]
    ELSE IF pats[k] = <<>> THEN [raised |-> TRUE, pats |-> pats]
    ELSE IF pats[k][Len(pats[k])] = "/"
         THEN SlashStar([pats EXCEPT ![k] = Append(@, "*")], k + 1)
         ELSE SlashStar(pats, k + 1)

\* lines 13-36.
ExcludeFiles(exclude, fs) ==
    LET exclude_patterns == SlashStar(Split(exclude, ","), 1)
        Matches(f) == \E k \in 1..Len(exclude_patterns.pats) :
                         Fnmatch(f, exclude_patterns.pats[k])
        exclude_files == SelectSeq(fs, Matches)
        InExcluded(f) == \E k \in 1..Len(exclude_files) : exclude_files[k] = f
    IN  IF exclude_patterns.raised
        THEN [raised |-> TRUE, files |-> <<>>]
        ELSE [raised |-> FALSE,
              files |-> SelectSeq(fs, LAMBDA f : ~InExcluded(f))]

\* args.exclude when the option is not given.
None == <<"None">>

\* The values of --exclude tried.
Excludes == {
    None,
    <<>>,   \* (empty)
    <<"l", "o", "g", "s", "/">>,   \* logs/
    <<"l", "o", "g", "s">>,   \* logs
    <<"*", ".", "t", "x", "t">>,   \* *.txt
    <<"l", "o", "g", "s", "*">>,   \* logs*
    <<"l", "o", "g", "s", "/", "s", "u", "b", "/", "?", ".", "t", "x", "t">>,   \* logs/sub/?.txt
    <<"l", "o", "g", "s", "/", ",", "*", ".", "b", "a", "k">>,   \* logs/,*.bak
    <<"l", "o", "g", "s", "/", ",">>,   \* logs/,
    <<"x", ",", ",", "l", "o", "g", "s", "/">>,   \* x,,logs/
    <<"t", "m", "p", "/">>}   \* tmp/

\* The candidate paths tried, in enumeration order.
Candidates == <<
    <<"l", "o", "g", "s">>,   \* logs
    <<"l", "o", "g", "s", "/", "a", ".", "t", "x", "t">>,   \* logs/a.txt
    <<"l", "o", "g", "s", "/", "s", "u", "b", "/", "b", ".", "t", "x", "t">>,   \* logs/sub/b.txt
    <<"l", "o", "g", "s", "_", "b", "a", "c", "k", "u", "p", "/", "a", ".", "t", "x", "t">>>>   \* logs_backup/a.txt

\* The ordered sub-lists of Candidates.
CandidateLists ==
    {SelectSeq(Candidates, LAMBDA f : \E k \in ks : Candidates[k] = f) :
        ks \in SUBSET (1..Len(Candidates))}

\* create() at line 186: the candidate list is gathered, --exclude parsed.
InitExclude ==
    /\ pc = "measure"
    /\ config \in [maxsize : {10}, keep : {FALSE}]
    /\ files = <<>>
    /\ exc = "none"
    /\ failures = <<>>
    /\ newtar = TRUE
    /\ i = 0
    /\ archived = <<>>
    /\ tarsize = 0
    /\ itar = -1
    /\ tar = NoTar
    /\ chunks = <<>>
    /\ pending = <<>>
    /\ index = <<>>
    /\ seen = <<>>
    /\ puts = <<>>
    /\ cpc = "exclude"
    /\ hpss = "none"
    /\ db = "new"
    /\ conn = "open"
    /\ checked = {"isdir", "cache"}
    /\ cexc = "none"
    /\ arg \in [exclude : Excludes, files : CandidateLists]
    /\ res = <<>>

\* create.py lines 187-188 with --exclude given.
Exclude ==
    /\ cpc = "exclude"
    /\ arg.exclude # None
    /\ res' = ExcludeFiles(arg.exclude, arg.files)
    /\ cpc' = IF res'.raised THEN "failed" ELSE "addfiles"
    /\ cexc' = IF res'.raised THEN "IndexError" ELSE cexc
    /\ UNCHANGED <<avars, puts, hpss, db, conn, checked, arg>>

\* create.py line 187 without --exclude: the list is passed on as it is.
NoExclude ==
    /\ cpc = "exclude"
    /\ arg.exclude = None
    /\ res' = [raised |-> FALSE, files |-> arg.files]
    /\ cpc' = "addfiles"
    /\ UNCHANGED <<avars, puts, hpss, db, conn, checked, cexc, arg>>

NextExclude ==
    \/ Exclude
    \/ NoExclude

SpecExclude == InitExclude /\ [][NextExclude]_vars

\* The patterns of an --exclude value, a trailing "/" read as "/*".
PatternsOf(exclude) ==
    LET ps == Split(exclude, ",")
    IN  [k \in 1..Len(ps) |->
            IF ps[k] # <<>> /\ ps[k][Len(ps[k])] = "/"
            THEN Append(ps[k], "*") ELSE ps[k]]

\* The candidates that match none of the patterns, in their order.
Unmatched(exclude, fs) ==
    SelectSeq(fs, LAMBDA f : \A k \in 1..Len(PatternsOf(exclude)) :
                                ~Fnmatch(f, PatternsOf(exclude)[k]))

\* excludeFiles has been called.
Excluded == res # <<>> /\ arg.exclude # None

\* C13: excludeFiles returns exactly the candidates that match none of the
\* patterns, in their original order, a pattern ending in "/" standing for
\* that pattern followed by "*": "logs/" removes "logs/a.txt" and
\* "logs/sub/b.txt" and keeps "logs_backup/a.txt".
C13_ReturnsUnmatched ==
    Excluded =>
        /\ ~res.raised
        /\ res.files = Unmatched(arg.exclude, arg.files)
        /\ (arg.exclude = <<"l", "o", "g", "s", "/">> /\ arg.files = Candidates =>
               res.files = <<<<"l", "o", "g", "s">>, <<"l", "o", "g", "s", "_", "b", "a", "c", "k", "u", "p", "/", "a", ".", "t", "x", "t">>>>)

\* C14: excludeFiles has no error outcome: it raises for no pattern string
\* and no candidate list, not for the empty string and not for an empty
\* element after a trailing or between doubled commas; with no pattern the
\* list is returned unchanged.
C14_NoErrorOutcome ==
    /\ cexc # "IndexError"
    /\ res # <<>> =>
          /\ res.raised = FALSE
          /\ (arg.exclude \in {None, <<>>} => res.files = arg.files)


\* ------------------------------------------------------ the list of files
\* The characters of the paths, in code point order.
CharOrder == <<".", "/", "_", "a", "b", "c", "d", "e", "f", "g", "h", "i", "j", "k",
              "l", "m", "n", "o", "p", "q", "r", "s", "t", "u", "v", "w", "x", "y", "z">>

Ord(c) == CHOOSE k \in 1..Len(CharOrder) : CharOrder[k] = c

\* a < b for Python str.
RECURSIVE StrLess(_, _)
StrLess(a, b) ==
    IF b = <<>> THEN FALSE
    ELSE IF a = <<>> THEN TRUE
    ELSE IF Head(a) = Head(b) THEN StrLess(Tail(a), Tail(b))
    ELSE Ord(Head(a)) < Ord(Head(b))

\* KeyLess comparing the directory only.
KeyLess_RootOnly(x, y) == StrLess(x[1], y[1])

\* line 176: the key (x[0], x[1]), compared as a tuple.
KeyLess(x, y) ==
    IF x[1] = y[1] THEN StrLess(x[2], y[2]) ELSE StrLess(x[1], y[1])

\* sorted(): x is put after the elements of the sorted list that are not
\* greater than it (stable).
RECURSIVE Insert(_, _)
Insert(x, srt) ==
    IF srt = <<>> THEN <<x>>
    ELSE IF KeyLess(x, Head(srt)) THEN <<x>> \o srt
    ELSE <<Head(srt)>> \o Insert(x, Tail(srt))

\* line 176: sorted(files, key=...).
RECURSIVE Sorted(_)
Sorted(l) ==
    IF l = <<>> THEN <<>>
    ELSE Insert(l[Len(l)], Sorted(SubSeq(l, 1, Len(l) - 1)))

\* os.path.join(a, b) on POSIX.
Join(a, b) ==
    IF b # <<>> /\ Head(b) = "/" THEN b
    ELSE IF a = <<>> \/ a[Len(a)] = "/" THEN a \o b
    ELSE a \o <<"/">> \o b

\* posixpath.normpath: the components kept, ".." removing the one before.
RECURSIVE NormComps(_, _, _)
NormComps(comps, acc, abs) ==
    IF comps = <<>> THEN acc
    ELSE LET c == Head(comps)
         IN  IF c = <<>> \/ c = <<".">> THEN NormComps(Tail(comps), acc, abs)
             ELSE IF c # <<".", ".">> THEN NormComps(Tail(comps), Append(acc, c), abs)
             ELSE IF acc # <<>> /\ acc[Len(acc)] # <<".", ".">>
                  THEN NormComps(Tail(comps), SubSeq(acc, 1, Len(acc) - 1), abs)
             ELSE IF acc = <<>> /\ abs THEN NormComps(Tail(comps), acc, abs)
             ELSE NormComps(Tail(comps), Append(acc, c), abs)

\* "/".join(comps).
RECURSIVE JoinComps(_)
JoinComps(comps) ==
    IF comps = <<>> THEN <<>>
    ELSE IF Len(comps) = 1 THEN comps[1]
    ELSE comps[1] \o <<"/">> \o JoinComps(Tail(comps))

\* os.path.normpath(p) on POSIX (one leading slash).
Normpath(p) ==
    LET abs == p # <<>> /\ Head(p) = "/"
        q == JoinComps(NormComps(Split(p, "/"), <<>>, abs))
    IN  IF abs THEN <<"/">> \o q
        ELSE IF q = <<>> THEN <<".">> ELSE q

\* lines 180-184: the paths of the sorted pairs whose directory is not
\* os.path.join(".", cache).
RECURSIVE Relative(_, _)
Relative(l, cache) ==
    IF l = <<>> THEN <<>>
    ELSE (IF Head(l)[1] # Join(<<".">>, cache)
          THEN <<Normpath(Join(Head(l)[1], Head(l)[2]))>> ELSE <<>>)
         \o Relative(Tail(l), cache)

\* lines 176-184 on the pairs in the order of the walk.
ListOf(walked, cache) == Relative(Sorted(walked), cache)

\* utils.py line 42 on an unchanged tree: the size of a path is fixed.
Getsize(path) == Len(path)

\* utils.py lines 48-89 when no entry fails: for each entry from position
\* idx on its path, the ordinal of its chunk and its offset in the chunk.
RECURSIVE Plan(_, _, _, _, _, _)
Plan(fs, idx, ord, tsz, off, maxsize) ==
    IF idx >= Len(fs) THEN <<>>
    ELSE LET f == fs[idx + 1]
             tsz1 == tsz + f[2]
             off1 == off + HdrLen + Blocks(f[2]) * BLOCKSIZE
         IN  <<[path |-> f[1], tar |-> Tfname(ord), offset |-> off]>>
             \o (IF CloseNow(idx, Len(fs), tsz1, fs, maxsize)
                 THEN Plan(fs, idx + 1, ord + 1, 0, 0, maxsize)
                 ELSE Plan(fs, idx + 1, ord, tsz1, off1, maxsize))

\* The (root, filename) pairs every tree tried holds: the index file
\* created at line 127 in the cache directory.
CachePairs == {
    <<<<".", "/", "z", "s", "t", "a", "s", "h">>, <<"i", "n", "d", "e", "x", ".", "d", "b">>>>}   \* ./zstash  index.db

\* The pairs a tree tried may hold; the pair with an empty filename is an
\* empty directory (lines 168-169).
TreePairs == {
    <<<<".">>, <<"a">>>>,   \* .  a
    <<<<".">>, <<"b">>>>,   \* .  b
    <<<<".", "/", "d">>, <<"x">>>>,   \* ./d  x
    <<<<".", "/", "e">>, <<>>>>,   \* ./e  (empty directory)
    <<<<".", "/", "z", "s", "t", "a", "s", "h", "/", "s", "u", "b">>, <<"t">>>>}   \* ./zstash/sub  t

\* The values of --cache naming the cache directory of CachePairs.
CacheNames == {
    <<"z", "s", "t", "a", "s", "h">>,   \* zstash
    <<"z", "s", "t", "a", "s", "h", "/">>,   \* zstash/
    <<".", "/", "z", "s", "t", "a", "s", "h">>}   \* ./zstash

\* The permutations of a set, as sequences.
RECURSIVE Perms(_)
Perms(S) ==
    IF S = {} THEN {<<>>}
    ELSE UNION {{<<x>> \o q : q \in Perms(S \ {x})} : x \in S}

\* Directory a is the directory b or contains it.
IsPrefixDir(a, b) ==
    \/ a = b
    \/ Len(a) < Len(b) /\ SubSeq(b, 1, Len(a) + 1) = a \o <<"/">>

\* lines 166-172: os.walk yields every directory once, a directory before
\* the directories in it; the order of the names in a directory is the
\* order of the listing.
Walks(tree) ==
    {w \in Perms(tree) :
        \A a \in 1..Len(w) : \A b \in 1..Len(w) :
            /\ (a < b /\ w[a][1] = w[b][1]) =>
                  \A c \in a..b : w[c][1] = w[a][1]
            /\ (w[a][1] # w[b][1] /\ IsPrefixDir(w[a][1], w[b][1])) => a < b}

\* create() at line 164 of two sessions over the same tree with the same
\* settings.
InitWalk ==
    /\ pc = "measure"
    /\ config \in [maxsize : MaxSizes, keep : {FALSE}]
    /\ files = <<>>
    /\ exc = "none"
    /\ failures = <<>>
    /\ newtar = TRUE
    /\ i = 0
    /\ archived = <<>>
    /\ tarsize = 0
    /\ itar = -1
    /\ tar = NoTar
    /\ chunks = <<>>
    /\ pending = <<>>
    /\ index = <<>>
    /\ seen = <<>>
    /\ puts = <<>>
    /\ cpc = "walk"
    /\ hpss = "none"
    /\ db = "new"
    /\ conn = "open"
    /\ checked = {"isdir", "cache"}
    /\ cexc = "none"
    /\ arg \in [tree : {CachePairs \cup t : t \in SUBSET TreePairs},
                cache : CacheNames]
    /\ res = <<>>

\* lines 164-184 and the plan of line 191, for one order of the walk.
Listing(walked) ==
    LET l == ListOf(walked, arg.cache)
    IN  [walked |-> walked,
         files |-> l,
         plan |-> Plan([k \in 1..Len(l) |-> <<l[k], Getsize(l[k])>>],
                       0, 0, 0, 0, config.maxsize)]

\* lines 164-191 in the first session.
FirstRun ==
    /\ cpc = "walk"
    /\ \E w \in Walks(arg.tree) : res' = <<Listing(w)>>
    /\ cpc' = "rerun"
    /\ UNCHANGED <<avars, puts, hpss, db, conn, checked, cexc, arg>>

\* lines 164-191 in the second session.
SecondRun ==
    /\ cpc = "rerun"
    /\ \E w \in Walks(arg.tree) : res' = Append(res, Listing(w))
    /\ cpc' = "listed"
    /\ UNCHANGED <<avars, puts, hpss, db, conn, checked, cexc, arg>>

NextWalk ==
    \/ FirstRun
    \/ SecondRun

SpecWalk == InitWalk /\ [][NextWalk]_vars

\* The pairs of l are in ascending order of (directory, filename).
RECURSIVE Ascending(_)
Ascending(l) ==
    Len(l) <= 1 \/ (KeyLess(l[1], l[2]) /\ Ascending(Tail(l)))

\* C15: the entry list create() hands to the builder depends only on the
\* tree and the settings, not on the order in which the walk yields
\* directories and names: the pairs are sorted by (directory, filename), so
\* two sessions over an unchanged tree get the same list, the same
\* assignment of entries to chunks and the same offsets.
C15_ListIndependentOfWalk ==
    /\ \A k \in 1..Len(res) : Ascending(Sorted(res[k].walked))
    /\ cpc = "listed" =>
          /\ res[1].files = res[2].files
          /\ res[1].plan = res[2].plan

\* Two sessions whose walks yielded the directories and the names of the
\* top directory in different orders; the entries fill two chunks.
C15_Witness ==
    /\ cpc = "listed"
    /\ res[1].walked # res[2].walked
    /\ res[1].walked[1][2] # res[2].walked[1][2]
    /\ res[1].walked[Len(res[1].walked)][1] # res[2].walked[Len(res[2].walked)][1]
    /\ Len(res[1].files) >= 4
    /\ \E k \in 1..Len(res[1].plan) : res[1].plan[k].tar = "000001.tar"

\* Path p is the directory named cache, or located in it.
InCache(p, cache) == IsPrefixDir(Normpath(cache), p)

\* C16: no path located in the cache directory, directly or in one of its
\* subdirectories, is in the entry list handed to the builder, for every
\* form of the cache name; the index file and the chunk files are never
\* archived.
C16_CacheNotListed ==
    \A k \in 1..Len(res) : \A j \in 1..Len(res[k].files) :
        ~InCache(res[k].files[j], arg.cache)

====
